---- MODULE Spec2Model ----
(***************************************************************************)
(* mage-validator (src/src/index.ts): the ValidatedTopic entity wrapper    *)
(* around state.archivist, and the @Acl decorator that casts, validates    *)
(* and runs a user command.                                                *)
(*                                                                         *)
(* Encoding of JavaScript values:                                          *)
(*   - an object is a function from its own enumerable field names to      *)
(*     values; a field that is not there is not in the DOMAIN;             *)
(*   - "possibly undefined" slots (a property that may not be defined, a   *)
(*     callback argument that may be undefined/null) are sequences of      *)
(*     length 0 (undefined) or 1 (the value);                              *)
(*   - a completion of a function or of a promise is a record              *)
(*     [threw, error, value]: threw = TRUE is a throw / a rejection.       *)
(***************************************************************************)
EXTENDS Naturals, Sequences, FiniteSets, TLC

\* ------------------------------------------------------------------ bounds
\* instance slots the application code holds references to
MaxEnts == 1
\* longest list of indexes handed to mget
MaxList == 2

\* ------------------------------------------------------- JavaScript values
Undefined == "undefined"
EmptyObj == <<>>
None == <<>>
Some(v) == <<v>>

\* o[f] in JavaScript: undefined when the field is not there
Field(o, f) == IF f \in DOMAIN o THEN o[f] ELSE Undefined

\* delete o[f]
Without(o, f) == [g \in DOMAIN o \ {f} |-> o[g]]

Range(s) == {s[i] : i \in 1..Len(s)}

RECURSIVE Perms(_)
\* every ordering of the elements at the positions of s
Perms(s) ==
  IF Len(s) = 0 THEN {<<>>}
  ELSE UNION {{<<s[i]>> \o p :
                 p \in Perms([j \in 1..(Len(s) - 1) |-> IF j < i THEN s[j] ELSE s[j + 1]])} :
              i \in 1..Len(s)}

\* ------------------------------------------------------------ completions
NoError == [name |-> "", message |-> "", details |-> {}]
Return(v) == [threw |-> FALSE, error |-> NoError, value |-> v]
Throw(e) == [threw |-> TRUE, error |-> e, value |-> None]

\* class ValidationError extends Error
ValidationError(message, details) ==
  [name |-> "ValidationError", message |-> message, details |-> details]

\* the engine's own TypeError (Object.defineProperty on a defined property,
\* a property read on undefined)
TypeError(message) == [name |-> "TypeError", message |-> message, details |-> {}]

\* an error value handed to a callback by state.archivist
AdapterErrors == {"E1", "E2"}
AdapterError(e) == [name |-> "AdapterError", message |-> e, details |-> {}]

throwOnError(message, errors, obj) ==
  IF errors # {} THEN Throw(ValidationError(message, errors)) ELSE Return(obj)

\* ------------------------------------------------- the topic class Player
\* class Player extends ValidatedTopic: one index field, one data field
TopicName == "Player"
\* Player.toString(), as the words around its blanks and its first "("
ClassText == <<"class", "Player", "extends", "ValidatedTopic", "{", "constructor", "(", ")", "}">>
ClassIndex == <<"playerId">>
Ids == {"p1", "p2"}
Contexts == {"ctx1", "ctx2"}
Options == {"none", "optional"}

\* a violation: the field and the constraint it breaks
Required(o, fields) ==
  {<<f, "isDefined">> : f \in {g \in fields : Field(o, g) = Undefined}}
    \cup {<<f, "isNotEmpty">> : f \in {g \in fields : Field(o, g) = ""}}

\* classValidator.validate(index): every declared index field is required
\* and not empty
IndexViolations(index) == Required(index, {"playerId"})

\* classValidator.validate(this): name is required and not empty
DataViolations(data) == Required(data, {"name"})

\* the classes a parameter or an instance can be of: a topic class, the base
\* class itself, a class that is no topic
TopicClasses == {TopicName, "ValidatedTopic"}
Classes == TopicClasses \cup {"Plain"}

\* type.prototype instanceof ValidatedTopic: a proper subclass only
derivesFromValidatedTopic(type) == type \in TopicClasses \ {"ValidatedTopic"}

\* new classInstance(state?): _topic is the constructor's name, _state is set
\* only when state is given
newInstance(type, state) ==
  [topic |-> type, state |-> state, index |-> None, data |-> EmptyObj]

\* classTransformer.plainToClass(type, data): a new instance of type that
\* carries every field of data; a topic class runs the ValidatedTopic
\* constructor
plainToClass(type, data) ==
  IF type \in TopicClasses THEN [newInstance(type, None) EXCEPT !.data = data]
  ELSE [class |-> type, data |-> data]

\* setState that binds the instance to whatever state it is given
setState_rebinds(instance, state) == Return(Some([instance EXCEPT !.state = Some(state)]))

\* instance.setState(state): Object.defineProperty(this, '_state', {value})
setState(instance, state) ==
  IF instance.state = None THEN Return(Some([instance EXCEPT !.state = Some(state)]))
  ELSE IF instance.state = Some(state) THEN Return(Some(instance))
  ELSE Throw(TypeError("Cannot redefine property: _state"))

\* the Index object setIndex builds: the declared fields only
buildIndex(indexData) == [f \in Range(ClassIndex) |-> Field(indexData, f)]

\* setIndex that assigns without validating
setIndex_unvalidated(instance, indexData) ==
  IF instance.index # None THEN Throw(TypeError("Cannot redefine property: _index"))
  ELSE Return(Some([instance EXCEPT !.index = Some(buildIndex(indexData))]))

\* setIndex that redefines an index already assigned
setIndex_overwrites(instance, indexData) ==
  LET index == buildIndex(indexData)
      checked == throwOnError("Invalid index", IndexViolations(index), None)
  IN  IF checked.threw THEN Throw(checked.error)
      ELSE Return(Some([instance EXCEPT !.index = Some(index)]))

\* instance.setIndex(indexData)
setIndex(instance, indexData) ==
  LET index == buildIndex(indexData)
      checked == throwOnError("Invalid index", IndexViolations(index), None)
  IN  IF checked.threw THEN Throw(checked.error)
      ELSE IF instance.index # None
           THEN Throw(TypeError("Cannot redefine property: _index"))
           ELSE Return(Some([instance EXCEPT !.index = Some(index)]))

\* ValidatedTopic.create(state, index, data): data is None when falsy
create(state, index, data) ==
  LET instance == IF data # None THEN plainToClass(TopicName, data[1])
                  ELSE newInstance(TopicName, None)
      bound == setState(instance, state)
  IN  IF bound.threw THEN Throw(bound.error)
      ELSE setIndex(bound.value[1], index)

\* validate() that never throws
validate_silent(instance) == Return(None)

\* instance.validate()
validate(instance) == throwOnError("Invalid type", DataViolations(instance.data), None)

\* --------------------------------------------------------------- the state
VARIABLES
  ents,    \* the instances application code holds: slot -> None or Some(instance)
  store,   \* the vault behind state.archivist: id -> None or Some(data)
  call,    \* the ValidatedTopic call in flight (or just completed)
  command, \* the user command class @Acl was applied to
  inv,     \* the invocations of the wrapped execute: id -> invocation
  archivistExports, \* the exports of lib/archivist: topic name -> None or Some(entry)
  loaded   \* the last call of loadTopicsFromModule and its outcome

topicVars == <<ents, store, call>>
aclVars == <<command, inv>>
loadVars == <<archivistExports, loaded>>
vars == <<ents, store, call, command, inv, archivistExports, loaded>>

\* raw index objects callers pass: complete, with an undeclared field, empty
RawIndexes ==
  {[playerId |-> "p1"], [playerId |-> "p2"], [playerId |-> "p1", extra |-> "x"], EmptyObj}
IndexSeqs == UNION {[1..n -> RawIndexes] : n \in 0..MaxList}
Names == {"Ann", ""}
DataObjs == {[name |-> n] : n \in Names}
DataArgs == {None} \cup {Some(d) : d \in DataObjs}
Slots == 1..MaxEnts

Idle ==
  [op |-> "none", pc |-> "idle", slot |-> 0, ctx |-> None, queries |-> <<>>,
   options |-> "none", list |-> <<>>, d |-> 0, instances |-> <<>>, io |-> <<>>,
   ran |-> <<>>, failed |-> None, before |-> None, validated |-> None,
   result |-> Return(None)]

\* the call c completes with completion r
Settle(c, r) == [c EXCEPT !.pc = "done", !.result = r]

\* one invocation of a state.archivist method
Invocation(method, ctx, args) == [method |-> method, ctx |-> ctx, args |-> args]

\* what the vault holds for an index of a topic
Lookup(topic, index) ==
  LET k == Field(index, "playerId") IN
    IF topic = TopicName /\ k \in Ids THEN store[k] ELSE None

\* ------------------------------------------------------ the user command
\* longest argument list of execute besides state
MaxArgs == 2
\* invocations of the wrapped execute that can be in flight together
MaxInv == 2

Invs == 1..MaxInv
Positions == 1..MaxArgs

\* functionArguments(execute): state first, then one name per argument
parameterNames == <<"state">> \o SubSeq(<<"a", "b", "c", "d">>, 1, MaxArgs)

\* the raw arguments a client sends: nothing, or an object
ArgObjs ==
  {[index |-> [playerId |-> "p1"], name |-> "Ann"],
   [index |-> [playerId |-> "p2"], name |-> "Bob"],
   [name |-> "Bob"],
   [index |-> [playerId |-> ""], name |-> "Ann"],
   [index |-> [playerId |-> "p2"], name |-> ""]}
RawArgs == {None} \cup {Some(o) : o \in ArgObjs}

\* what the body of execute returns
Outputs ==
  {[type |-> "undefined", class |-> "", data |-> EmptyObj],
   [type |-> "number", class |-> "", data |-> EmptyObj],
   [type |-> "null", class |-> "", data |-> EmptyObj],
   [type |-> "object", class |-> "Output", data |-> [name |-> "Ann"]],
   [type |-> "object", class |-> "Output", data |-> [name |-> ""]]}
BodyErrors == {"B1"}
BodyError(e) == [name |-> "Error", message |-> e, details |-> {}]

\* typeof obj
typeof(obj) == IF obj.type \in {"null", "object"} THEN "object" ELSE obj.type

Unregistered ==
  [acl |-> None, types |-> <<>>, wrapped |-> FALSE, key |-> "", log |-> <<>>, raised |-> None]

NoCast ==
  [pc |-> "none", via |-> "", index |-> EmptyObj, data |-> EmptyObj, value |-> None,
   error |-> NoError]

IdleInv ==
  [pc |-> "idle", ctx |-> None, raw |-> <<>>, args |-> <<>>,
   cast |-> [p \in Positions |-> NoCast],
   order |-> <<>>, userCommand |-> EmptyObj, rejected |-> None, validated |-> <<>>,
   passed |-> None, runs |-> 0, output |-> None, result |-> Return(None)]

\* ------------------------------------------------------ the topic loader
\* most files a module's topics folder holds
MaxFiles == 2

\* mage.listModules()
Modules == {"m1", "m2"}
\* path.parse(topicPath).name of the files
FileNames == {"Player", "Item"}
\* a file of a topics folder: its name, its extension, and what require() of
\* it does: a default export, no default export, or an error with the code
\* ENOENT thrown while it loads
Files == [name : FileNames, ext : {".ts", ".js"}, load : {"class", "nothing", "ENOENT"}]
\* what fs.readdirSync finds: no folder, a folder it may not read, or files
\* (no two of them with the same name and extension)
FolderErrors == {"ENOENT", "EACCES"}
Folders ==
  {[code |-> c, files |-> <<>>] : c \in FolderErrors}
    \cup {[code |-> "", files |-> f] :
            f \in {g \in UNION {[1..n -> Files] : n \in 0..MaxFiles} :
                     \A i, j \in 1..Len(g) :
                       (g[i].name = g[j].name /\ g[i].ext = g[j].ext) => i = j}}

NotLoaded ==
  [module |-> "", folder |-> [code |-> "", files |-> <<>>],
   before |-> [n \in FileNames |-> None], log |-> <<>>, result |-> Return(None)]

Init ==
  /\ archivistExports = [n \in FileNames |-> None]
  /\ loaded = NotLoaded
  /\ ents = [s \in Slots |-> None]
  /\ store = [k \in Ids |-> None]
  /\ call = Idle
  /\ command = Unregistered
  /\ inv = [i \in Invs |-> IdleInv]

\* ------------------------------------------------- instance operations
\* new Player(state?) by application code
construct(slot, state) ==
  /\ call.pc = "idle"
  /\ ents' = [ents EXCEPT ![slot] = Some(newInstance(TopicName, state))]
  /\ UNCHANGED <<store, call, aclVars, loadVars>>

\* Player.create(state, index, data) by application code
Create(slot, ctx, index, data) ==
  /\ call.pc = "idle"
  /\ LET r == create(ctx, index, data) IN
       /\ call' = Settle([Idle EXCEPT !.op = "create", !.slot = slot, !.ctx = Some(ctx),
                                       !.queries = <<[topic |-> TopicName, index |-> index]>>,
                                       !.before = ents[slot]], r)
       /\ ents' = IF r.threw THEN ents ELSE [ents EXCEPT ![slot] = r.value]
  /\ UNCHANGED <<store, aclVars, loadVars>>

\* instance.setIndex(indexData) by application code
SetIndex(slot, index) ==
  /\ call.pc = "idle"
  /\ ents[slot] # None
  /\ LET r == setIndex(ents[slot][1], index) IN
       /\ call' = Settle([Idle EXCEPT !.op = "setIndex", !.slot = slot,
                                       !.queries = <<[topic |-> TopicName, index |-> index]>>,
                                       !.before = ents[slot]],
                         IF r.threw THEN r ELSE Return(None))
       /\ ents' = IF r.threw THEN ents ELSE [ents EXCEPT ![slot] = r.value]
  /\ UNCHANGED <<store, aclVars, loadVars>>

\* instance.setState(state) by application code
SetState(slot, ctx) ==
  /\ call.pc = "idle"
  /\ ents[slot] # None
  /\ LET r == setState(ents[slot][1], ctx) IN
       /\ call' = Settle([Idle EXCEPT !.op = "setState", !.slot = slot, !.ctx = Some(ctx),
                                       !.before = ents[slot]],
                         IF r.threw THEN r ELSE Return(None))
       /\ ents' = IF r.threw THEN ents ELSE [ents EXCEPT ![slot] = r.value]
  /\ UNCHANGED <<store, aclVars, loadVars>>

\* application code assigns the data field of an instance it holds; it can do
\* so while a write of that instance is awaiting its validation
Assign(slot, n) ==
  /\ call.pc \in {"idle", "validated"}
  /\ ents[slot] # None
  /\ Field(ents[slot][1].data, "name") # n
  /\ ents' = [ents EXCEPT ![slot] =
                Some([ents[slot][1] EXCEPT !.data = [f \in DOMAIN @ \cup {"name"} |->
                                                       IF f = "name" THEN n ELSE @[f]]])]
  /\ UNCHANGED <<store, call, aclVars, loadVars>>

\* instance.validate() by application code
Validate(slot) ==
  /\ call.pc = "idle"
  /\ ents[slot] # None
  /\ call' = Settle([Idle EXCEPT !.op = "validate", !.slot = slot,
                                 !.validated = Some(DataViolations(ents[slot][1].data))],
                    validate(ents[slot][1]))
  /\ UNCHANGED <<ents, store, aclVars, loadVars>>

\* the first half of add / set / touch: await this.validate()
BeginWrite(op, slot) ==
  /\ call.pc = "idle"
  /\ ents[slot] # None
  /\ LET checked == validate(ents[slot][1])
         c == [Idle EXCEPT !.op = op, !.slot = slot,
                           !.validated = Some(DataViolations(ents[slot][1].data))]
     IN  call' = IF checked.threw THEN Settle(c, checked) ELSE [c EXCEPT !.pc = "validated"]
  /\ UNCHANGED <<ents, store, aclVars, loadVars>>

add(slot) == BeginWrite("add", slot)
set(slot) == BeginWrite("set", slot)
touch(slot) == BeginWrite("touch", slot)

\* state.archivist.add / set / touch / del on the vault
archivistWrite(method, topic, index, data) ==
  IF index = None \/ topic # TopicName THEN store
  ELSE LET k == index[1].playerId IN
       CASE method = "set" -> [store EXCEPT ![k] = Some(data)]
         [] method = "add" -> IF store[k] = None THEN [store EXCEPT ![k] = Some(data)] ELSE store
         [] method = "del" -> [store EXCEPT ![k] = None]
         [] OTHER -> store

\* the arguments the instance hands to the archivist method
writeArgs(method, instance) ==
  IF method \in {"add", "set"}
  THEN <<instance.topic, instance.index, instance.data>>
  ELSE <<instance.topic, instance.index>>

\* the second half of add / set / touch:
\* return this.getState().archivist[op](this.getTopic(), this.getIndex(), ...)
ResumeWrite ==
  /\ call.pc = "validated"
  /\ LET instance == ents[call.slot][1] IN
       IF instance.state = None
       THEN /\ call' = Settle(call, Throw(TypeError("Cannot read property 'archivist' of undefined")))
            /\ store' = store
       ELSE /\ call' = Settle([call EXCEPT !.io = Append(@, Invocation(call.op, instance.state[1],
                                                          writeArgs(call.op, instance)))],
                              Return(None))
            /\ store' = archivistWrite(call.op, instance.topic, instance.index, instance.data)
  /\ UNCHANGED <<ents, aclVars, loadVars>>

\* del that validates the instance first, as add / set / touch do
del_validating(slot) == BeginWrite("del", slot)

\* instance.del(): no validation, a plain (synchronous) method
del(slot) ==
  /\ call.pc = "idle"
  /\ ents[slot] # None
  /\ LET instance == ents[slot][1]
         c == [Idle EXCEPT !.op = "del", !.slot = slot]
     IN  IF instance.state = None
         THEN /\ call' = Settle(c, Throw(TypeError("Cannot read property 'archivist' of undefined")))
              /\ store' = store
         ELSE /\ call' = Settle([c EXCEPT !.io = <<Invocation("del", instance.state[1],
                                                              writeArgs("del", instance))>>],
                                Return(None))
              /\ store' = archivistWrite("del", instance.topic, instance.index, instance.data)
  /\ UNCHANGED <<ents, aclVars, loadVars>>

\* the caller takes the outcome; the call record is free again
Finish ==
  /\ call.pc = "done"
  /\ call' = Idle
  /\ UNCHANGED <<ents, store, aclVars, loadVars>>


\* ---------------------------------------------------- static operations
\* getClassName that takes the first word of the text
getClassName_firstWord == ClassText[1]

\* this.toString().split('(')[0].split(' ')[1]
getClassName ==
  LET open == CHOOSE i \in 1..Len(ClassText) :
                /\ ClassText[i] = "("
                /\ \A j \in 1..(i - 1) : ClassText[j] # "("
      head == SubSeq(ClassText, 1, open - 1)
  IN  head[2]

\* what state.archivist hands to the callback: (error, data)
Failure(e) == [error |-> Some(AdapterError(e)), data |-> None]
Success(data) == [error |-> None, data |-> data]

\* execute that drops the error and runs the continuation
execute_dropsError(c, reply, continued) == continued

\* ValidatedTopic.execute, from the callback on: reject(error) or
\* resolve(run(data)); continued is the call as run(data) carries it on
execute(c, reply, continued) ==
  IF reply.error # None THEN Settle(c, Throw(reply.error[1])) ELSE continued

\* the orderings of a finite set
Orderings(S) == {s \in [1..Cardinality(S) -> S] : Range(s) = S}

\* state.archivist.get answers with an error or with what the vault holds
GetReplies(query) ==
  {Failure(e) : e \in AdapterErrors} \cup {Success(Lookup(query.topic, query.index))}

\* state.archivist.list answers with an error or with the stored indexes that
\* match the partial index, in some order
ListReplies(query) ==
  LET want == Field(query.index, "playerId")
      keys == {k \in Ids : query.topic = TopicName /\ store[k] # None /\ want \in {Undefined, k}}
  IN  {Failure(e) : e \in AdapterErrors}
        \cup {Success(s) : s \in Orderings({[playerId |-> k] : k \in keys})}

\* state.archivist.mget answers with an error or with a list: what the vault
\* holds for each query, possibly in another order, cut short, or longer
MgetReplies(queries) ==
  LET held == [i \in 1..Len(queries) |-> Lookup(queries[i].topic, queries[i].index)]
  IN  {Failure(e) : e \in AdapterErrors}
        \cup {Success(s) : s \in Perms(held)}
        \cup {Success(SubSeq(held, 1, n)) : n \in 0..Len(held)}
        \cup {Success(Append(held, None))}

\* ValidatedTopic.get, up to the call of state.archivist.get
Get(ctx, index, options) ==
  /\ call.pc = "idle"
  /\ call' = [Idle EXCEPT !.op = "get", !.pc = "awaitGet", !.ctx = Some(ctx),
                          !.queries = <<[topic |-> getClassName, index |-> index]>>,
                          !.options = options,
                          !.io = <<Invocation("get", ctx, <<getClassName, index, options>>)>>]
  /\ UNCHANGED <<ents, store, aclVars, loadVars>>

\* application code that awaited set() reads the entity back:
\* Player.get(entity.getState(), entity.getIndex())
GetBack(options) ==
  /\ call.pc = "done"
  /\ call.op = "set"
  /\ ~call.result.threw
  /\ ents[call.slot][1].index # None
  /\ LET written == ents[call.slot][1]
         index == written.index[1]
     IN  call' = [Idle EXCEPT !.op = "get", !.pc = "awaitGet", !.ctx = written.state,
                              !.slot = call.slot, !.before = Some(written),
                              !.queries = <<[topic |-> getClassName, index |-> index]>>,
                              !.options = options,
                              !.io = <<Invocation("get", written.state[1],
                                                  <<getClassName, index, options>>)>>]
  /\ UNCHANGED <<ents, store, aclVars, loadVars>>

\* the callback of get: async (data) => this.create(state, index, data)
GetCallback ==
  /\ call.pc = "awaitGet"
  /\ \E reply \in GetReplies(call.queries[1]) :
     LET c == [call EXCEPT !.failed = reply.error] IN
       call' = execute(c, reply,
                       Settle([c EXCEPT !.ran = Append(@, "get")],
                              create(c.ctx[1], c.queries[1].index, reply.data)))
  /\ UNCHANGED <<ents, store, aclVars, loadVars>>

\* ValidatedTopic.mget(state, indexes, options), up to the call of
\* state.archivist.mget; c is the call that makes it
mget(c, indexes, options) ==
  LET queries == [i \in 1..Len(indexes) |-> [topic |-> getClassName, index |-> indexes[i]]]
  IN  [c EXCEPT !.pc = "awaitMget", !.queries = queries, !.options = options,
                !.io = Append(@, Invocation("mget", c.ctx[1], <<queries, options>>))]

Mget(ctx, indexes, options) ==
  /\ call.pc = "idle"
  /\ call' = mget([Idle EXCEPT !.op = "mget", !.ctx = Some(ctx)], indexes, options)
  /\ UNCHANGED <<ents, store, aclVars, loadVars>>

\* the callback of mget: the loop starts
MgetCallback ==
  /\ call.pc = "awaitMget"
  /\ \E reply \in MgetReplies(call.queries) :
     LET c == [call EXCEPT !.failed = reply.error] IN
       call' = execute(c, reply,
                       [c EXCEPT !.pc = "construct", !.list = reply.data, !.d = 0,
                                 !.instances = <<>>, !.ran = Append(@, "mget")])
  /\ UNCHANGED <<ents, store, aclVars, loadVars>>

\* the loop body pairing the data with the queries from the far end
mgetTurn_fromEnd(c) ==
  LET data == c.list[c.d + 1] IN
    IF c.d + 1 > Len(c.queries)
    THEN Settle(c, Throw(TypeError("Cannot read property 'index' of undefined")))
    ELSE LET r == create(c.ctx[1], c.queries[Len(c.queries) - c.d].index, data) IN
           IF r.threw THEN Settle(c, Throw(r.error))
           ELSE [c EXCEPT !.instances = Append(@, r.value[1]), !.d = @ + 1]

\* the loop body that goes on to the next position when create fails
mgetTurn_skipsFailure(c) ==
  LET data == c.list[c.d + 1] IN
    IF c.d + 1 > Len(c.queries)
    THEN Settle(c, Throw(TypeError("Cannot read property 'index' of undefined")))
    ELSE LET r == create(c.ctx[1], c.queries[c.d + 1].index, data) IN
           IF r.threw THEN [c EXCEPT !.d = @ + 1]
           ELSE [c EXCEPT !.instances = Append(@, r.value[1]), !.d = @ + 1]

\* the body of the loop of mget for the call c: d is the 0-based position
mgetTurn(c) ==
  LET data == c.list[c.d + 1] IN
    IF c.d + 1 > Len(c.queries)
    THEN Settle(c, Throw(TypeError("Cannot read property 'index' of undefined")))
    ELSE LET r == create(c.ctx[1], c.queries[c.d + 1].index, data) IN
           IF r.threw THEN Settle(c, Throw(r.error))
           ELSE [c EXCEPT !.instances = Append(@, r.value[1]), !.d = @ + 1]

\* one turn of the loop of mget
MgetStep ==
  /\ call.pc = "construct"
  /\ call.d < Len(call.list)
  /\ call' = mgetTurn(call)
  /\ UNCHANGED <<ents, store, aclVars, loadVars>>

\* the loop of mget is over: return instances
MgetReturn ==
  /\ call.pc = "construct"
  /\ call.d = Len(call.list)
  /\ call' = Settle(call, Return(Some(call.instances)))
  /\ UNCHANGED <<ents, store, aclVars, loadVars>>

\* the entities a completed get / mget / query resolved with
Resolved(c) ==
  IF c.pc # "done" \/ c.result.threw THEN {}
  ELSE IF c.op = "get" THEN {c.result.value[1]}
  ELSE IF c.op \in {"mget", "query"} THEN Range(c.result.value[1])
  ELSE {}

\* application code keeps an entity a read resolved with
Keep(slot) ==
  /\ \E entity \in Resolved(call) : ents' = [ents EXCEPT ![slot] = Some(entity)]
  /\ call' = Idle
  /\ UNCHANGED <<store, aclVars, loadVars>>

PartialIndexes == {EmptyObj, [playerId |-> "p1"]}

\* ValidatedTopic.list, up to the call of state.archivist.list
List(ctx, partialIndex, options) ==
  /\ call.pc = "idle"
  /\ call' = [Idle EXCEPT !.op = "list", !.pc = "awaitList", !.ctx = Some(ctx),
                          !.queries = <<[topic |-> getClassName, index |-> partialIndex]>>,
                          !.options = options,
                          !.io = <<Invocation("list", ctx,
                                              <<getClassName, partialIndex, options>>)>>]
  /\ UNCHANGED <<ents, store, aclVars, loadVars>>

\* query that hands its options to state.archivist.list as list does
Query_passesOptions(ctx, partialIndex, options) ==
  /\ call.pc = "idle"
  /\ call' = [Idle EXCEPT !.op = "query", !.pc = "awaitList", !.ctx = Some(ctx),
                          !.queries = <<[topic |-> getClassName, index |-> partialIndex]>>,
                          !.options = options,
                          !.io = <<Invocation("list", ctx,
                                              <<getClassName, partialIndex, options>>)>>]
  /\ UNCHANGED <<ents, store, aclVars, loadVars>>

\* ValidatedTopic.query, up to the call of state.archivist.list
Query(ctx, partialIndex, options) ==
  /\ call.pc = "idle"
  /\ call' = [Idle EXCEPT !.op = "query", !.pc = "awaitList", !.ctx = Some(ctx),
                          !.queries = <<[topic |-> getClassName, index |-> partialIndex]>>,
                          !.options = options,
                          !.io = <<Invocation("list", ctx, <<getClassName, partialIndex>>)>>]
  /\ UNCHANGED <<ents, store, aclVars, loadVars>>

\* the callback of list: (indexes) => indexes for list,
\* (indexes) => this.mget(state, indexes, options) for query
ListCallback ==
  /\ call.pc = "awaitList"
  /\ \E reply \in ListReplies(call.queries[1]) :
     LET c == [call EXCEPT !.failed = reply.error] IN
       call' = execute(c, reply,
                       IF c.op = "list"
                       THEN Settle([c EXCEPT !.ran = Append(@, "list")],
                                   Return(Some(reply.data)))
                       ELSE mget([c EXCEPT !.ran = Append(@, "list")], reply.data, c.options))
  /\ UNCHANGED <<ents, store, aclVars, loadVars>>

Next ==
  \/ \E slot \in Slots, state \in {None} \cup {Some(c) : c \in Contexts} : construct(slot, state)
  \/ \E slot \in Slots, ctx \in Contexts, index \in RawIndexes, data \in DataArgs :
       Create(slot, ctx, index, data)
  \/ \E slot \in Slots, index \in RawIndexes : SetIndex(slot, index)
  \/ \E slot \in Slots, ctx \in Contexts : SetState(slot, ctx)
  \/ \E slot \in Slots, n \in Names : Assign(slot, n)
  \/ \E slot \in Slots : Validate(slot)
  \/ \E slot \in Slots : add(slot)
  \/ \E slot \in Slots : set(slot)
  \/ \E slot \in Slots : touch(slot)
  \/ ResumeWrite
  \/ \E slot \in Slots : del(slot)
  \/ \E ctx \in Contexts, index \in RawIndexes, options \in Options : Get(ctx, index, options)
  \/ \E options \in Options : GetBack(options)
  \/ GetCallback
  \/ \E slot \in Slots : Keep(slot)
  \/ Finish

\* instances made, changed, written and read back one at a time
Spec == Init /\ [][Next]_vars

NextRead ==
  \/ \E ctx \in Contexts, index \in RawIndexes, options \in Options : Get(ctx, index, options)
  \/ GetCallback
  \/ \E ctx \in Contexts, indexes \in IndexSeqs, options \in Options : Mget(ctx, indexes, options)
  \/ MgetCallback
  \/ MgetStep
  \/ MgetReturn
  \/ \E ctx \in Contexts, partialIndex \in PartialIndexes, options \in Options :
       List(ctx, partialIndex, options)
  \/ \E ctx \in Contexts, partialIndex \in PartialIndexes, options \in Options :
       Query(ctx, partialIndex, options)
  \/ ListCallback
  \/ Finish

\* the vault outlives the process: a read finds whatever it holds
InitRead ==
  /\ archivistExports = [n \in FileNames |-> None]
  /\ loaded = NotLoaded
  /\ ents = [s \in Slots |-> None]
  /\ store \in [Ids -> DataArgs]
  /\ call = Idle
  /\ command = Unregistered
  /\ inv = [i \in Invs |-> IdleInv]

\* the static reads of the vault
SpecRead == InitRead /\ [][NextRead]_vars

\* application code holds no instance yet
NoInstance == \A slot \in Slots : ents[slot] = None

\* application code that reads entities from the vault, keeps one, and goes
\* on working with it and with instances it makes
NextAll ==
  \/ NoInstance /\ NextRead
  \/ Next

SpecAll == InitRead /\ [][NextAll]_vars

\* ------------------------------------------------------------ the decorator
\* crash(message, data): the emergency log entry, and the Error it returns
crash(message, data) ==
  [entry |-> [level |-> "emergency", message |-> message, data |-> data],
   error |-> [name |-> "Error", message |-> message, details |-> {}]]

Keys == {"execute", "setup"}
AclLists == {<<"user">>, <<"admin", "user">>}

\* the decorator without the test of key
Acl_anyMethod(acl, key, types) ==
  /\ command = Unregistered
  /\ command' = [command EXCEPT !.acl = Some(acl), !.types = <<"State">> \o types,
                                !.wrapped = TRUE, !.key = key]
  /\ UNCHANGED <<topicVars, loadVars, inv>>

\* Acl(...acl)(UserCommand, key); types is design:paramtypes after state;
\* the descriptor it returns replaces UserCommand[key]
Acl(acl, key, types) ==
  /\ command = Unregistered
  /\ command' =
       IF key # "execute"
       THEN LET c == crash("@validate only works for usercommand.execute functions",
                           [method |-> key, userCommand |-> "UserCommand"])
            IN  [command EXCEPT !.log = Append(@, c.entry), !.raised = Some(c.error)]
       ELSE [command EXCEPT !.acl = Some(acl), !.types = <<"State">> \o types,
                            !.wrapped = TRUE, !.key = key]
  /\ UNCHANGED <<topicVars, loadVars, inv>>

\* classValidator.validate(userCommand): a field holding an instance is
\* valid when that instance is
HolderViolations(data) ==
  {n \in DOMAIN data : data[n] # None /\ DataViolations(data[n][1].data) # {}}

\* classValidator.validate(obj), as the completions it can have; what it does
\* with null is the library's business: it may throw, find nothing, or
\* report the unknown value
classValidatorValidate(obj) ==
  CASE obj.type = "null" ->
         {Throw(TypeError("Cannot read property 'constructor' of null")),
          Return({}), Return({"unknownValue"})}
    [] obj.class = "UserCommand" -> {Return(HolderViolations(obj.data))}
    [] OTHER -> {Return(DataViolations(obj.data))}

\* validateObject that hands obj back without looking at the violations
validateObject_unchecked(message, obj) == {Return(Some(obj))}

\* validateObject(message, obj), as the completions it can have
validateObject(message, obj) ==
  IF typeof(obj) = "object"
  THEN {IF v.threw THEN v ELSE throwOnError(message, v.value, Some(obj)) :
          v \in classValidatorValidate(obj)}
  ELSE {Return(Some(obj))}

\* the callback of args.map without delete arg.index
castBegin_keepIndex(pos, arg) ==
  LET type == command.types[pos + 1]
  IN  IF arg # None /\ derivesFromValidatedTopic(type)
      THEN [NoCast EXCEPT !.pc = "awaiting", !.via = "create",
                          !.index = IF "index" \in DOMAIN arg[1] THEN arg[1].index ELSE EmptyObj,
                          !.data = arg[1]]
      ELSE [NoCast EXCEPT !.pc = "done", !.via = "plainToClass",
                          !.value = IF arg = None THEN None
                                    ELSE Some(plainToClass(type, arg[1]))]

\* one callback of args.map, up to its first await; pos is the 1-based
\* position among args
castBegin(pos, arg) ==
  LET realPos == pos + 1
      type == command.types[realPos]
  IN  IF arg # None /\ derivesFromValidatedTopic(type)
      THEN [NoCast EXCEPT !.pc = "awaiting", !.via = "create",
                          !.index = IF "index" \in DOMAIN arg[1] THEN arg[1].index ELSE EmptyObj,
                          !.data = Without(arg[1], "index")]
      ELSE [NoCast EXCEPT !.pc = "done", !.via = "plainToClass",
                          !.value = IF arg = None THEN None
                                    ELSE Some(plainToClass(type, arg[1]))]

\* Promise.all that lists the values in the order the casts settled
PromiseAll_bySettlement(v) == [k \in Positions |-> v.cast[v.order[k]].value]

\* what Promise.all over the casts of the invocation v is fulfilled with
PromiseAll(v) == [p \in Positions |-> v.cast[p].value]

\* userCommand[parameterName] = instance
assignParameter(userCommand, pos, instance) ==
  [n \in DOMAIN userCommand \cup {parameterNames[pos + 1]} |->
     IF n = parameterNames[pos + 1] THEN instance ELSE userCommand[n]]

RECURSIVE assignAll(_, _, _)
\* the assignments of the casts that end without awaiting, in position order
assignAll(userCommand, cast, pos) ==
  IF pos > MaxArgs THEN userCommand
  ELSE assignAll(IF cast[pos].pc = "done"
                 THEN assignParameter(userCommand, pos, cast[pos].value)
                 ELSE userCommand,
                 cast, pos + 1)

\* the wrapped execute(state, ...args), up to await Promise.all; the
\* invocation is known by the first number no invocation in flight has
Invoke(i, ctx, raw) ==
  /\ command.wrapped
  /\ inv[i].pc = "idle"
  /\ \A j \in Invs : j < i => inv[j].pc # "idle"
  /\ LET cast == [p \in Positions |-> castBegin(p, raw[p])] IN
       inv' = [inv EXCEPT ![i] =
                 [IdleInv EXCEPT
                    !.pc = "awaitCasts", !.ctx = Some(ctx), !.raw = raw,
                    !.args = [p \in Positions |->
                                IF cast[p].via = "create" THEN Some(cast[p].data) ELSE raw[p]],
                    !.cast = cast,
                    !.order = SelectSeq([p \in Positions |-> p], LAMBDA p : cast[p].pc = "done"),
                    !.userCommand = assignAll(EmptyObj, cast, 1)]]
  /\ UNCHANGED <<topicVars, loadVars, command>>

\* the cast at pos of the invocation v is fulfilled with instance: the
\* rest of the callback of args.map runs
castFulfil(v, pos, instance) ==
  [v EXCEPT !.cast[pos].pc = "done", !.cast[pos].value = instance,
            !.order = Append(v.order, pos),
            !.userCommand = assignParameter(v.userCommand, pos, instance)]

\* a rejection that replaces the outcome of an earlier one
castReject_lastWins(v, pos, error) ==
  [v EXCEPT !.cast[pos].pc = "failed", !.cast[pos].error = error,
            !.order = Append(v.order, pos),
            !.rejected = Some(error), !.pc = "done", !.result = Throw(error)]

\* the cast at pos of the invocation v is rejected with error: Promise.all
\* is rejected with the first rejection, and await throws it
castReject(v, pos, error) ==
  [v EXCEPT !.cast[pos].pc = "failed", !.cast[pos].error = error,
            !.order = Append(v.order, pos),
            !.rejected = IF v.rejected = None THEN Some(error) ELSE v.rejected,
            !.pc = IF v.pc = "awaitCasts" THEN "done" ELSE v.pc,
            !.result = IF v.pc = "awaitCasts" THEN Throw(error) ELSE v.result]

\* instance = await type.create(state, index, arg) settles for position pos
CastSettle(i, pos) ==
  /\ inv[i].cast[pos].pc = "awaiting"
  /\ LET v == inv[i]
         c == v.cast[pos]
         r == create(v.ctx[1], c.index, Some(c.data))
     IN  inv' = [inv EXCEPT ![i] = IF r.threw THEN castReject(v, pos, r.error)
                                   ELSE castFulfil(v, pos, r.value)]
  /\ UNCHANGED <<topicVars, loadVars, command>>

\* a holder that is one object for every invocation
holder_shared(i) == inv[CHOOSE j \in Invs : inv[j].pc # "idle"].userCommand

\* const userCommand = new UserCommand(): the holder of the invocation i
holder(i) == inv[i].userCommand

\* await validateObject('Invalid user command input', userCommand)
ValidateInput(i) ==
  /\ inv[i].pc = "awaitCasts"
  /\ \A p \in Positions : inv[i].cast[p].pc = "done"
  /\ \E r \in validateObject("Invalid user command input",
                             [type |-> "object", class |-> "UserCommand",
                              data |-> holder(i)]) :
       inv' = [inv EXCEPT ![i] =
                 [inv[i] EXCEPT !.validated = Append(@, "Invalid user command input"),
                                !.pc = IF r.threw THEN "done" ELSE "body",
                                !.result = IF r.threw THEN r ELSE @]]
  /\ UNCHANGED <<topicVars, loadVars, command>>

\* const output = await execute(state, ...casted)
Body(i) ==
  /\ inv[i].pc = "body"
  /\ LET ran == [inv[i] EXCEPT !.runs = @ + 1,
                               !.passed = Some(<<inv[i].ctx[1]>> \o PromiseAll(inv[i]))]
     IN  \/ \E out \in Outputs :
              inv' = [inv EXCEPT ![i] = [ran EXCEPT !.pc = "output", !.output = Some(out)]]
         \/ \E e \in BodyErrors :
              inv' = [inv EXCEPT ![i] = [ran EXCEPT !.pc = "done", !.result = Throw(BodyError(e))]]
  /\ UNCHANGED <<topicVars, loadVars, command>>

\* return await validateObject('Invalid user command return value', output)
ValidateOutput(i) ==
  /\ inv[i].pc = "output"
  /\ \E r \in validateObject("Invalid user command return value", inv[i].output[1]) :
       inv' = [inv EXCEPT ![i] =
                 [inv[i] EXCEPT !.validated = IF typeof(inv[i].output[1]) = "object"
                                              THEN Append(@, "Invalid user command return value")
                                              ELSE @,
                                !.pc = "done", !.result = r]]
  /\ UNCHANGED <<topicVars, loadVars, command>>

\* the caller has the outcome and every cast has settled
Conclude(i) ==
  /\ inv[i].pc = "done"
  /\ \A p \in Positions : inv[i].cast[p].pc # "awaiting"
  /\ inv' = [inv EXCEPT ![i] = IdleInv]
  /\ UNCHANGED <<topicVars, loadVars, command>>

\* an invocation made while no other is in flight
InvokeAlone(i, ctx, raw) ==
  /\ \A j \in Invs : inv[j].pc = "idle"
  /\ Invoke(i, ctx, raw)

NextAcl ==
  \/ \E acl \in AclLists, key \in Keys, types \in [Positions -> Classes] : Acl(acl, key, types)
  \/ \E i \in Invs, ctx \in Contexts, raw \in [Positions -> RawArgs] : InvokeAlone(i, ctx, raw)
  \/ \E i \in Invs, pos \in Positions : CastSettle(i, pos)
  \/ \E i \in Invs : ValidateInput(i)
  \/ \E i \in Invs : Body(i)
  \/ \E i \in Invs : ValidateOutput(i)
  \/ \E i \in Invs : Conclude(i)

\* the decorator and the invocations of the wrapped execute, one at a time
SpecAcl == Init /\ [][NextAcl]_vars

\* raw arguments that name the entity they stand for
IndexedArgs == {Some(o) : o \in {a \in ArgObjs : "index" \in DOMAIN a}}

\* a command whose arguments are all entities, invoked again while earlier
\* invocations are in flight
NextConcurrent ==
  \/ \E types \in [Positions -> {TopicName}] : Acl(<<"user">>, "execute", types)
  \/ \E i \in Invs, ctx \in Contexts, raw \in [Positions -> IndexedArgs] : Invoke(i, ctx, raw)
  \/ \E i \in Invs, pos \in Positions : CastSettle(i, pos)
  \/ \E i \in Invs : ValidateInput(i)
  \/ \E i \in Invs : Body(i)
  \/ \E i \in Invs : ValidateOutput(i)
  \/ \E i \in Invs : Conclude(i)

SpecConcurrent == Init /\ [][NextConcurrent]_vars

\* -------------------------------------------------- loadTopicsFromModule
\* an error of fs or of require: a NodeJS.ErrnoException with its code
ErrnoException(code) == [name |-> "Error", message |-> code, details |-> {}, code |-> code]

\* throwIfNotFileNotFoundError(error)
throwIfNotFileNotFoundError(error) ==
  IF Field(error, "code") # "ENOENT" THEN Throw(error) ELSE Return(None)

\* the callback of forEach that assigns without looking for the name
loadTopicFile_overwrites(acc, moduleName, file) ==
  IF acc.result.threw \/ file.ext # ".ts" THEN acc
  ELSE [acc EXCEPT !.exports[file.name] =
                     Some([definition |-> <<moduleName, file.name>>, module |-> moduleName])]

\* the callback of forEach for one file of the folder; acc is the exports,
\* the log and the completion of the callbacks so far (a throw ends forEach)
loadTopicFile(acc, moduleName, file) ==
  LET topicName == file.name IN
    IF acc.result.threw THEN acc
    ELSE IF file.ext # ".ts" THEN acc
    ELSE IF acc.exports[topicName] # None
    THEN LET c == crash("Topic is already defined!",
                        [alreadySetByModule |-> acc.exports[topicName][1].module,
                         module |-> moduleName, topic |-> topicName])
         IN  [acc EXCEPT !.log = Append(@, c.entry), !.result = Throw(c.error)]
    ELSE CASE file.load = "ENOENT" -> [acc EXCEPT !.result = Throw(ErrnoException("ENOENT"))]
           [] file.load = "nothing" ->
                [acc EXCEPT !.result =
                              Throw(TypeError("Cannot set property '_module' of undefined"))]
           [] OTHER ->
                [acc EXCEPT !.exports[topicName] =
                              Some([definition |-> <<moduleName, topicName>>,
                                    module |-> moduleName])]

RECURSIVE forEach(_, _, _, _)
\* fs.readdirSync(moduleTopicsPath).forEach(...) from the file at position k
forEach(acc, moduleName, files, k) ==
  IF k > Len(files) THEN acc
  ELSE forEach(loadTopicFile(acc, moduleName, files[k]), moduleName, files, k + 1)

\* loadTopicsFromModule(archivistExports, moduleName) with folder as what
\* the module's topics folder is on disk
loadTopicsFromModule(moduleName, folder) ==
  /\ loaded = NotLoaded
  /\ LET start == [exports |-> archivistExports, log |-> <<>>, result |-> Return(None)]
         tried == IF folder.code # ""
                  THEN [start EXCEPT !.result = Throw(ErrnoException(folder.code))]
                  ELSE forEach(start, moduleName, folder.files, 1)
         caught == IF tried.result.threw THEN throwIfNotFileNotFoundError(tried.result.error)
                   ELSE tried.result
     IN  /\ archivistExports' = tried.exports
         /\ loaded' = [module |-> moduleName, folder |-> folder, before |-> archivistExports,
                       log |-> tried.log, result |-> caught]
  /\ UNCHANGED <<topicVars, aclVars>>

\* the caller of loadTopicsFromModule takes the outcome
LoadReturn ==
  /\ loaded # NotLoaded
  /\ loaded' = NotLoaded
  /\ UNCHANGED <<archivistExports, topicVars, aclVars>>

NextLoad ==
  \/ \E moduleName \in Modules, folder \in Folders : loadTopicsFromModule(moduleName, folder)
  \/ LoadReturn

SpecLoad == Init /\ [][NextLoad]_vars

\* the first .ts file of the folder whose name is taken when its turn comes
Collides(l) ==
  \E k \in 1..Len(l.folder.files) :
    LET upTo == forEach([exports |-> l.before, log |-> <<>>, result |-> Return(None)],
                        l.module, SubSeq(l.folder.files, 1, k - 1), 1)
    IN  /\ ~upTo.result.threw
        /\ l.folder.files[k].ext = ".ts"
        /\ upTo.exports[l.folder.files[k].name] # None

\* C16: a name the exports hold keeps its definition and its module through
\* every later loadTopicsFromModule; an entry is the definition of the file
\* of that name in the module recorded with it; a .ts file whose name is
\* taken makes the call log one emergency entry naming the first module and
\* throw the Error 'Topic is already defined!' to the caller
C16_FirstRegistrationStays ==
  /\ [](\A n \in FileNames :
          archivistExports[n] # None =>
            \E m \in Modules :
              archivistExports[n] = Some([definition |-> <<m, n>>, module |-> m]))
  /\ [](Collides(loaded) =>
          /\ loaded.result =
               Throw([name |-> "Error", message |-> "Topic is already defined!", details |-> {}])
          /\ Len(loaded.log) = 1
          /\ loaded.log[1].level = "emergency"
          /\ loaded.log[1].data.module = loaded.module
          /\ loaded.before[loaded.log[1].data.topic] # None
          /\ loaded.log[1].data.alreadySetByModule =
               loaded.before[loaded.log[1].data.topic][1].module
          /\ \A n \in FileNames :
               loaded.before[n] # None => archivistExports[n] = loaded.before[n])
  /\ [][\A n \in FileNames :
          archivistExports[n] # None => archivistExports'[n] = archivistExports[n]]_vars

C16_Witness ==
  /\ Collides(loaded)
  /\ loaded.module = "m2"
  /\ loaded.log # <<>>
  /\ loaded.log[1].data.alreadySetByModule = "m1"
  /\ archivistExports # loaded.before

\* ------------------------------------------------- the wrapped execute
\* the invocation v has run its input validation
InputValidated(v) == v.validated # <<>>

\* the position whose cast was the first to be rejected
FirstRejected(v) ==
  v.order[CHOOSE k \in 1..Len(v.order) :
            /\ v.cast[v.order[k]].pc = "failed"
            /\ \A j \in 1..(k - 1) : v.cast[v.order[j]].pc # "failed"]

\* C2: when the aggregate validation of the holder finds a violation, the
\* body of execute is never run and the caller gets the ValidationError
\* 'Invalid user command input'
C2_InvalidInputNeverRunsBody ==
  \A i \in Invs :
    LET v == inv[i] IN
      (InputValidated(v) /\ HolderViolations(v.userCommand) # {}) =>
        /\ v.pc = "done"
        /\ v.runs = 0
        /\ v.passed = None
        /\ v.result = Throw(ValidationError("Invalid user command input",
                                            HolderViolations(v.userCommand)))

C2_Witness ==
  \E i \in Invs :
    /\ inv[i].pc = "done"
    /\ InputValidated(inv[i])
    /\ HolderViolations(inv[i].userCommand) # {}
    /\ inv[i].result.error.message = "Invalid user command input"

\* C4: once the body has returned, an object result with a violation gives
\* the caller the ValidationError 'Invalid user command return value', and a
\* result that is no object is returned unchanged and is not validated
C4_ResultValidatedOnlyIfObject ==
  \A i \in Invs :
    LET v == inv[i] IN
      (v.pc = "done" /\ v.output # None) =>
        /\ (v.output[1].type = "object" /\ DataViolations(v.output[1].data) # {}) =>
             v.result = Throw(ValidationError("Invalid user command return value",
                                              DataViolations(v.output[1].data)))
        /\ (v.output[1].type # "object") =>
             /\ v.result = Return(v.output)
             /\ v.validated = <<"Invalid user command input">>

\* C6: the body gets (state, casted[1], ..., casted[n]) in the positions of
\* the raw arguments whatever the order the casts settled in, and the holder
\* has the same casted value under the parameter's name
C6_ArgumentsKeepPosition ==
  \A i \in Invs :
    LET v == inv[i] IN
      v.passed # None =>
        /\ Len(v.passed[1]) = MaxArgs + 1
        /\ v.passed[1][1] = v.ctx[1]
        /\ \A p \in Positions :
             LET a == v.passed[1][p + 1] IN
               /\ (a = None) <=> (v.raw[p] = None)
               /\ a # None =>
                    \A f \in DOMAIN v.raw[p][1] \ {"index"} : a[1].data[f] = v.raw[p][1][f]
               /\ a = v.cast[p].value
               /\ v.userCommand[parameterNames[p + 1]] = a

C6_Witness ==
  \E i \in Invs :
    /\ inv[i].passed # None
    /\ inv[i].order = <<2, 1>>
    /\ inv[i].cast[1].via = "create"
    /\ inv[i].cast[2].via = "create"
    /\ inv[i].cast[1].value # inv[i].cast[2].value

\* C7: when a cast is rejected the invocation is rejected with the error of
\* the first cast to be rejected; input validation and the body are not run;
\* the casts still awaiting can settle, and what they yield reaches neither
\* the body nor the caller
C7_FirstRejectionWins ==
  \A i \in Invs :
    LET v == inv[i] IN
      (\E p \in Positions : v.cast[p].pc = "failed") =>
        /\ v.pc = "done"
        /\ v.result = Throw(v.cast[FirstRejected(v)].error)
        /\ v.validated = <<>>
        /\ v.runs = 0
        /\ v.passed = None
        /\ v.output = None
        /\ \A p \in Positions : v.cast[p].pc = "awaiting" => ENABLED CastSettle(i, p)

C7_Witness ==
  \E i \in Invs :
    /\ Len(inv[i].order) = 2
    /\ inv[i].cast[inv[i].order[1]].pc = "failed"
    /\ inv[i].cast[inv[i].order[1]].via = "create"
    /\ inv[i].cast[inv[i].order[2]].pc = "failed"
    /\ inv[i].cast[inv[i].order[1]].error # inv[i].cast[inv[i].order[2]].error

\* the instance the claim C10 expects of the argument object o of class type
ExpectedPlain(type, o) ==
  IF type = "Plain" THEN [class |-> "Plain", data |-> o]
  ELSE [topic |-> type, state |-> None, index |-> None, data |-> o]

\* C10: an argument goes through create(state, index, rest), with index
\* taken out of the raw argument (an empty object when it has none), exactly
\* when it is truthy and its declared type is a subclass of ValidatedTopic;
\* any other argument is only transformed by plainToClass; the entity's data
\* has no field 'index'; the vault is not accessed
C10_CastDispatch ==
  \A i \in Invs :
    LET v == inv[i] IN
      v.pc # "idle" =>
        /\ call = Idle
        /\ \A p \in Positions :
             LET raw == v.raw[p]
                 type == command.types[p + 1]
                 c == v.cast[p]
                 entity == raw # None /\ type = TopicName
             IN  /\ (c.via = "create") <=> entity
                 /\ entity =>
                      /\ c.index = IF "index" \in DOMAIN raw[1] THEN raw[1].index ELSE EmptyObj
                      /\ c.data = [f \in DOMAIN raw[1] \ {"index"} |-> raw[1][f]]
                      /\ v.args[p] = Some(c.data)
                      /\ c.pc = "done" =>
                           c.value = Some([topic |-> TopicName, state |-> v.ctx,
                                           index |-> Some([playerId |-> Field(c.index, "playerId")]),
                                           data |-> [f \in DOMAIN raw[1] \ {"index"} |-> raw[1][f]]])
                 /\ ~entity =>
                      /\ c.via = "plainToClass"
                      /\ c.pc = "done"
                      /\ v.args[p] = raw
                      /\ c.value = IF raw = None THEN None
                                   ELSE Some(ExpectedPlain(type, raw[1]))

C10_Witness ==
  \E i \in Invs :
    /\ inv[i].cast[1].via = "create"
    /\ inv[i].cast[1].pc = "done"
    /\ "index" \in DOMAIN inv[i].raw[1][1]
    /\ inv[i].cast[2].via = "plainToClass"
    /\ inv[i].raw[2] # None

\* ---------------------------------------------------- the topic engine
Writes == {"add", "set", "touch"}
Reads == {"get", "mget", "list", "query"}

\* a raw index that lacks a declared field
MissingRequired(index) == \E f \in Range(ClassIndex) : f \notin DOMAIN index

\* C1: add, set and touch call the archivist only after the validation of the
\* instance found no violation; when it finds some, the call is rejected with
\* the ValidationError 'Invalid type' carrying them and the archivist is not
\* called
C1_WriteOnlyAfterValidation ==
  call.op \in Writes =>
    /\ call.validated # None
    /\ call.io # <<>> => call.validated = Some({})
    /\ call.pc = "validated" => call.validated = Some({})
    /\ call.validated[1] # {} =>
         /\ call.pc = "done"
         /\ call.result = Throw(ValidationError("Invalid type", call.validated[1]))
         /\ call.io = <<>>

C1_Witness ==
  /\ call.op = "set"
  /\ call.pc = "done"
  /\ call.validated # None
  /\ call.validated[1] # {}
  /\ call.result.error.message = "Invalid type"

\* C3 as stated: a list mget returns is as long as the list of indexes, and
\* the entity at position i has the index indexes[i]
C3_SameLengthAsInput ==
  (call.pc = "done" /\ call.op = "mget" /\ ~call.result.threw) =>
    /\ Len(call.result.value[1]) = Len(call.queries)
    /\ \A i \in 1..Len(call.queries) :
         call.result.value[1][i].index = Some(buildIndex(call.queries[i].index))

\* C3 amended: a list mget returns is as long as the list the archivist
\* handed over, which is then no longer than the list of indexes; the entity
\* at position i has the index indexes[i], the state of the call and the data
\* of the archivist's element i; mget is rejected when the archivist's list
\* is longer than the list of indexes or an index used is invalid
C3_PairsByPosition ==
  (call.pc = "done" /\ call.op \in {"mget", "query"} /\ "mget" \in Range(call.ran)) =>
    LET n == Len(call.list)
        m == Len(call.queries)
    IN  IF call.result.threw
        THEN \/ n > m
             \/ \E i \in 1..n : IndexViolations(buildIndex(call.queries[i].index)) # {}
        ELSE /\ n <= m
             /\ Len(call.result.value[1]) = n
             /\ \A i \in 1..n :
                  LET e == call.result.value[1][i] IN
                    /\ e.index = Some([playerId |-> call.queries[i].index.playerId])
                    /\ e.state = call.ctx
                    /\ e.data = IF call.list[i] = None THEN EmptyObj ELSE call.list[i][1]

C3_Witness ==
  /\ call.pc = "done"
  /\ call.op = "mget"
  /\ ~call.result.threw
  /\ Len(call.queries) = 2
  /\ Len(call.list) = 2
  /\ call.list[1] # call.list[2]
  /\ call.list[1] # None
  /\ Lookup(TopicName, call.queries[1].index) = call.list[2]
  /\ Lookup(TopicName, call.queries[2].index) = call.list[1]

\* C5: create and setIndex with an index that lacks a required field are
\* rejected with the ValidationError 'Invalid index', the archivist is not
\* called, and the instance's index is left as it was: unassigned
C5_InvalidIndexRejected ==
  (call.pc = "done" /\ call.op \in {"create", "setIndex"}
     /\ MissingRequired(call.queries[1].index)) =>
    /\ call.result = Throw(ValidationError("Invalid index", {<<"playerId", "isDefined">>}))
    /\ call.io = <<>>
    /\ ents[call.slot] = call.before
    /\ call.op = "setIndex" =>
         (call.before[1].index = None => ents[call.slot][1].index = None)

C5_Witness ==
  /\ call.pc = "done"
  /\ call.op = "setIndex"
  /\ MissingRequired(call.queries[1].index)
  /\ call.before[1].index = None
  /\ call.result.error.message = "Invalid index"

\* C8: when the archivist's callback gets an error, get, mget, list and query
\* are rejected with that error itself, the continuation that builds the
\* result is not run, and the archivist method was called once
C8_AdapterErrorPropagates ==
  (call.pc = "done" /\ call.failed # None) =>
    /\ call.op \in Reads
    /\ call.result = Throw(call.failed[1])
    /\ call.io[Len(call.io)].method \notin Range(call.ran)
    /\ \A k, l \in 1..Len(call.io) : call.io[k].method = call.io[l].method => k = l
    /\ call.instances = <<>>

C8_Witness ==
  /\ call.pc = "done"
  /\ call.op = "query"
  /\ call.failed # None
  /\ Len(call.io) = 2

\* C9: where the archivist's list has no data at position i, the list mget
\* returns has a missing entry at position i, and no position is dropped
C9_MissingStaysMissing ==
  (call.pc = "done" /\ call.op = "mget" /\ ~call.result.threw) =>
    /\ Len(call.result.value[1]) = Len(call.list)
    /\ \A i \in 1..Len(call.list) :
         call.list[i] = None => call.result.value[1][i] = None

\* C11: del runs no validation and is never rejected with a ValidationError,
\* whatever the data of the instance; on an instance bound to a state it
\* calls state.archivist.del once, with (topic, index), and nothing else
C11_DelNeverValidates ==
  call.op = "del" =>
    LET instance == ents[call.slot][1] IN
      /\ call.pc = "done"
      /\ call.validated = None
      /\ call.result.error.name # "ValidationError"
      /\ instance.state # None =>
           /\ call.result = Return(None)
           /\ call.io = <<Invocation("del", instance.state[1],
                                     <<instance.topic, instance.index>>)>>

C11_Witness ==
  /\ call.op = "del"
  /\ call.pc = "done"
  /\ DataViolations(ents[call.slot][1].data) # {}
  /\ ents[call.slot][1].index # None
  /\ Len(call.io) = 1

\* the step puts a new instance in the slot: new Player(state?) or
\* Player.create(state, index, data)
Replaced(slot) ==
  \/ call.pc = "idle" /\ call'.op = "create" /\ call'.slot = slot
  \/ call' = Idle /\ ents'[slot] # ents[slot] /\ ents'[slot] \in {Some(e) : e \in Resolved(call)}
  \/ /\ call' = call
     /\ \E state \in {None} \cup {Some(c) : c \in Contexts} :
          ents'[slot] = Some(newInstance(TopicName, state))

\* C12: an instance that has an index keeps it through every later operation
\* on it (setIndex with a valid or an invalid index, setState, validate, add,
\* set, touch, del, assignments to its data), and the index an instance has
\* is one that passed validation
C12_IndexWriteOnce ==
  /\ [](\A s \in Slots :
          (ents[s] # None /\ ents[s][1].index # None) =>
            IndexViolations(ents[s][1].index[1]) = {})
  /\ [][\A s \in Slots :
          (ents[s] # None /\ ents[s][1].index # None /\ ~Replaced(s)) =>
            (ents'[s] # None /\ ents'[s][1].index = ents[s][1].index)]_vars

C12_Witness ==
  /\ call.op = "setIndex"
  /\ call.pc = "done"
  /\ call.before[1].index # None
  /\ IndexViolations(buildIndex(call.queries[1].index)) = {}
  /\ Some(buildIndex(call.queries[1].index)) # call.before[1].index
  /\ call.result.threw
  /\ ents[call.slot][1].index = call.before[1].index

\* C13: an entity create, get, mget or query resolves with is bound to the
\* state passed to that call, and an instance bound to a state stays bound
\* to that state through every later operation on it
C13_BoundToCallState ==
  /\ []((call.pc = "done" /\ ~call.result.threw) =>
          /\ call.op = "create" => call.result.value[1].state = call.ctx
          /\ \A e \in Resolved(call) : e.state = call.ctx)
  /\ []((call.op \in {"mget", "query"}) =>
          \A k \in 1..Len(call.instances) : call.instances[k].state = call.ctx)
  /\ [][\A s \in Slots :
          (ents[s] # None /\ ents[s][1].state # None /\ ~Replaced(s)) =>
            (ents'[s] # None /\ ents'[s][1].state = ents[s][1].state)]_vars

C13_Witness ==
  /\ call.op = "setState"
  /\ call.pc = "done"
  /\ call.before[1].state # None
  /\ call.before[1].state # call.ctx
  /\ call.before[1].data # EmptyObj
  /\ call.before[1].index # None
  /\ call.result.threw
  /\ ents[call.slot] = call.before

\* C14: validate() checks the data fields of the instance, not its index,
\* and hands the list of violations back to the caller: the empty list when
\* the data is valid, the violations found when it is not
C14_ReturnsViolationList ==
  (call.op = "validate" /\ call.pc = "done") =>
    /\ call.validated = Some(DataViolations(ents[call.slot][1].data))
    /\ ~call.result.threw
    /\ call.result.value = call.validated

\* C15: the decorator applied to a method other than execute logs one entry
\* at emergency level and raises an Error; the list is not attached to the
\* command and there is no wrapped function to invoke; applied to execute it
\* attaches the list, wraps execute, logs nothing and raises nothing
C15_OnlyOnExecute ==
  command # Unregistered =>
    \/ /\ command.wrapped
       /\ command.key = "execute"
       /\ command.acl \in {Some(l) : l \in AclLists}
       /\ command.log = <<>>
       /\ command.raised = None
    \/ /\ ~command.wrapped
       /\ command.acl = None
       /\ Len(command.log) = 1
       /\ command.log[1].level = "emergency"
       /\ command.log[1].data.method # "execute"
       /\ command.raised = Some([name |-> "Error", message |-> command.log[1].message,
                                 details |-> {}])
       /\ \A i \in Invs : inv[i] = IdleInv /\ ~ENABLED Invoke(i, "ctx1", [p \in Positions |-> None])

C15_Witness ==
  /\ command.raised # None
  /\ Len(command.log) = 1
  /\ command.log[1].data.method = "setup"

\* C17: an entity written with set and read back with get, with its state
\* and its index, comes back as an entity of the same topic with the data
\* fields that were written and the index that was written, provided the
\* archivist reports no error
C17_SetThenGet ==
  (call.op = "get" /\ call.pc = "done" /\ call.before # None /\ call.failed = None) =>
    LET written == call.before[1] IN
      /\ call.queries[1].topic = written.topic
      /\ ~call.result.threw
      /\ call.result.value[1].topic = written.topic
      /\ call.result.value[1].data = written.data
      /\ call.result.value[1].index = written.index
      /\ call.result.value[1].state = written.state

C17_Witness ==
  /\ call.op = "get"
  /\ call.pc = "done"
  /\ call.before # None
  /\ call.failed = None
  /\ call.before[1].data = [name |-> "Ann"]
  /\ call.before[1].index = Some([playerId |-> "p2"])
  /\ ~call.result.threw

RECURSIVE mgetLoop(_)
\* the loop of mget run to its end from the call c
mgetLoop(c) ==
  IF c.pc = "done" THEN c.result
  ELSE IF c.d = Len(c.list) THEN Return(Some(c.instances))
  ELSE mgetLoop(mgetTurn(c))

\* what mget(state, indexes, options) alone completes with when the
\* archivist's mget hands back list
MgetOutcome(state, indexes, options, list) ==
  mgetLoop([mget([Idle EXCEPT !.op = "mget", !.ctx = Some(state)], indexes, options)
              EXCEPT !.pc = "construct", !.list = list])

\* the indexes of the queries of the call
QueryIndexes(c) == [i \in 1..Len(c.queries) |-> c.queries[i].index]

\* C18 as stated: the call of state.archivist.list that query makes is the
\* one list(state, partialIndex, options) makes
C18_ListGetsOptions ==
  call.op = "query" =>
    call.io[1] = Invocation("list", call.ctx[1],
                            <<getClassName, call.io[1].args[2], call.options>>)

\* C18 amended: query calls state.archivist.list once with the topic and the
\* partial index and no options; when that fails query is rejected with the
\* error and state.archivist.mget is not called; otherwise it calls
\* state.archivist.mget once, with the indexes list handed over and the
\* options of query, and completes as mget(state, indexes, options) does
C18_QueryIsListThenMget ==
  call.op = "query" =>
    /\ call.io[1].method = "list"
    /\ call.io[1].ctx = call.ctx[1]
    /\ Len(call.io[1].args) = 2
    /\ call.io[1].args[1] = TopicName
    /\ Len(call.io) <= 2
    /\ "list" \notin Range(call.ran) =>
         /\ Len(call.io) = 1
         /\ call.pc = "done" => call.failed # None /\ call.result = Throw(call.failed[1])
    /\ "list" \in Range(call.ran) =>
         /\ Len(call.io) = 2
         /\ call.io[2] = Invocation("mget", call.ctx[1], <<call.queries, call.options>>)
         /\ \A i \in 1..Len(call.queries) : call.queries[i].topic = TopicName
         /\ Success(QueryIndexes(call))
              \in ListReplies([topic |-> TopicName, index |-> call.io[1].args[2]])
         /\ (call.pc = "done" /\ call.failed # None) => call.result = Throw(call.failed[1])
         /\ (call.pc = "done" /\ call.failed = None) =>
              call.result = MgetOutcome(call.ctx[1], QueryIndexes(call), call.options, call.list)

C18_Witness ==
  /\ call.op = "query"
  /\ call.pc = "done"
  /\ call.options = "optional"
  /\ ~call.result.threw
  /\ Len(call.queries) = 2
  /\ Len(call.result.value[1]) = 2
  /\ call.result.value[1][1].data # call.result.value[1][2].data

\* the call is past the callback of state.archivist.mget
Constructing(c) == c.op \in {"mget", "query"} /\ "mget" \in Range(c.ran)

\* C19: mget builds its entities one position at a time, in the order of
\* the list: the entities built so far are those of the first d positions;
\* when the construction at a position fails mget is rejected with that
\* error, no later position is built and no list is returned
C19_OneAtATimeInOrder ==
  /\ [](Constructing(call) =>
          /\ Len(call.instances) = call.d
          /\ call.d <= Len(call.list)
          /\ \A k \in 1..call.d :
               Return(Some(call.instances[k]))
                 = create(call.ctx[1], call.queries[k].index, call.list[k])
          /\ (call.pc = "done" /\ ~call.result.threw) =>
               call.d = Len(call.list) /\ call.result = Return(Some(call.instances))
          /\ (call.pc = "done" /\ call.result.threw) =>
               /\ call.d < Len(call.list)
               /\ call.result.value = None
               /\ IF call.d + 1 > Len(call.queries)
                  THEN call.result.error.name = "TypeError"
                  ELSE call.result = create(call.ctx[1], call.queries[call.d + 1].index,
                                            call.list[call.d + 1]))
  /\ [][(Constructing(call) /\ call.pc = "construct") =>
          \/ call'.pc = "construct" /\ call'.d = call.d + 1
               /\ SubSeq(call'.instances, 1, call.d) = call.instances
          \/ call'.pc = "done" /\ call'.d = call.d /\ call'.instances = call.instances]_vars

C19_Witness ==
  /\ call.op = "mget"
  /\ call.pc = "done"
  /\ call.result.threw
  /\ call.result.error.message = "Invalid index"
  /\ call.d = 0
  /\ Len(call.list) = 2
  /\ Len(call.queries) = 2
  /\ IndexViolations(buildIndex(call.queries[2].index)) = {}

\* what the raw argument at pos of the invocation v is cast to, from the raw
\* arguments and the state of v alone
OwnCast(v, pos) ==
  LET raw == v.raw[pos]
      type == command.types[pos + 1]
  IN  IF raw # None /\ derivesFromValidatedTopic(type)
      THEN create(v.ctx[1],
                  IF "index" \in DOMAIN raw[1] THEN raw[1].index ELSE EmptyObj,
                  Some([f \in DOMAIN raw[1] \ {"index"} |-> raw[1][f]]))
      ELSE Return(IF raw = None THEN None ELSE Some(plainToClass(type, raw[1])))

\* the holder of v once every cast of v is done, from its own arguments
OwnHolder(v) == [n \in {parameterNames[p + 1] : p \in Positions} |->
                   OwnCast(v, CHOOSE p \in Positions : parameterNames[p + 1] = n).value]

\* C20: with invocations of the wrapped execute in flight together, the
\* holder of each has only values cast from that invocation's own raw
\* arguments with its own state, its input validation is the validation of
\* those values, and its body gets those values
C20_HolderPerInvocation ==
  \A i \in Invs :
    LET v == inv[i] IN
      v.pc # "idle" =>
        /\ \A n \in DOMAIN v.userCommand :
             \E p \in Positions :
               /\ parameterNames[p + 1] = n
               /\ v.cast[p].pc = "done"
               /\ Return(v.userCommand[n]) = OwnCast(v, p)
        /\ \A p \in Positions :
             v.cast[p].pc = "done" => parameterNames[p + 1] \in DOMAIN v.userCommand
        /\ InputValidated(v) =>
             IF HolderViolations(OwnHolder(v)) # {}
             THEN v.result = Throw(ValidationError("Invalid user command input",
                                                   HolderViolations(OwnHolder(v))))
             ELSE v.pc # "done" \/ v.runs = 1
        /\ v.passed # None =>
             v.passed[1] = <<v.ctx[1]>> \o [p \in Positions |-> OwnCast(v, p).value]

C20_Witness ==
  /\ inv[1].pc = "output"
  /\ inv[2].pc = "done"
  /\ inv[2].result.error.message = "Invalid user command input"
  /\ HolderViolations(inv[1].userCommand) = {}
  /\ inv[1].ctx # inv[2].ctx
  /\ \A p \in Positions : inv[1].raw[p] # None /\ inv[2].raw[p] # None
  /\ inv[1].order = <<2, 1>>
  /\ inv[2].order = <<1, 2>>

====
